---- MODULE Spec2Model ----
(***************************************************************************)
(* Model of transformers/pipelines/automatic_speech_recognition.py:        *)
(* rescale_stride, chunk_iter, _find_longest_common_sequence and the       *)
(* AutomaticSpeechRecognitionPipeline run                                  *)
(*   _sanitize_parameters -> preprocess -> _forward per window ->          *)
(*   postprocess.                                                          *)
(*                                                                         *)
(* The waveform of length L is the sequence of samples 1, 2, ..., L (all   *)
(* distinct, none equal to the special token id 0), so that a stitched     *)
(* sequence shows which samples were kept, lost, duplicated or reordered.  *)
(***************************************************************************)
EXTENDS Integers, Sequences, FiniteSets, TLC

VARIABLES
    pc,           \* position of the run
    cfg,          \* construction state: model family, config, feature extractor
    params,       \* parameters split by _sanitize_parameters
    inp,          \* the locals of preprocess that are read again after its checks
    gen,          \* chunk_iter's loop state: offset i and (reassigned) chunk_len
    pending,      \* window yielded by preprocess, not yet forwarded (<<>>: none)
    windows,      \* every window preprocess has yielded, in order
    outputs,      \* model_outputs: what _forward returned, in order
    invocations,  \* number of model invocations so far
    error,        \* the error raised ("none" while no error)
    result,       \* the stitched sequence postprocess produced
    result_extra, \* the keys of the Result besides text and chunks
    fin,          \* argument of the pure function under check
    fout          \* its result

vars == <<pc, cfg, params, inp, gen, pending, windows, outputs, invocations,
          error, result, result_extra, fin, fout>>

----------------------------------------------------------------------------
(* Bounds *)

MaxLen == 6           \* waveform lengths 0..MaxLen
MaxChunkUnits == 4    \* chunk_len is 0..MaxChunkUnits units of align_to
MaxStrideUnits == 3   \* stride_left, stride_right are 0..MaxStrideUnits units
MaxUserStride == 2    \* user-supplied stride entries 0..MaxUserStride
MaxTriple == 7        \* rescale_stride: input_n in 0..MaxTriple
MaxRatioPart == 3     \* rescale_stride: ratio p/q with p, q in 1..MaxRatioPart
MaxSeqs == 2          \* _find_longest_common_sequence: 1..MaxSeqs sequences
MaxSeqLen == 3        \* each of length 0..MaxSeqLen
MaxTok == 2           \* over token ids 0..MaxTok
MaxOffsets == 2       \* timestamp projection: 0..MaxOffsets offset records
MaxFrame == 3         \* with frame indices 0..MaxFrame

----------------------------------------------------------------------------
(* Helpers *)

None == <<>>

Min(a, b) == IF a < b THEN a ELSE b
Max(a, b) == IF a > b THEN a ELSE b

\* tokenizer.all_special_ids
all_special_ids == {0}

\* Python's seq[lo:hi] for lo >= 0 and any integer hi (negative hi counts
\* from the end, out-of-range bounds are clipped).
PySlice(s, lo, hi) ==
    LET n  == Len(s)
        h0 == IF hi < 0 THEN Max(hi + n, 0) ELSE Min(hi, n)
        l0 == Min(lo, n)
    IN  IF l0 < h0 THEN SubSeq(s, l0 + 1, h0) ELSE <<>>

\* Python's seq[-i:] for i >= 1
PyTail(s, i) == SubSeq(s, Max(Len(s) - i, 0) + 1, Len(s))

\* int(round(num / den)) for num >= 0, den > 0: round half to even.  The source
\* evaluates the quotient in IEEE doubles; for every operand below 22 (all the
\* operands that occur within the bounds) the double result rounds to the
\* same integer as the exact quotient.
RoundHalfEven(num, den) ==
    LET q == num \div den
        r == num % den
    IN  IF 2 * r < den THEN q
        ELSE IF 2 * r > den THEN q + 1
        ELSE IF q % 2 = 0 THEN q ELSE q + 1

RECURSIVE Flatten(_)
Flatten(ss) == IF ss = <<>> THEN <<>> ELSE Head(ss) \o Flatten(Tail(ss))

RECURSIVE RemoveSpecial(_)
RemoveSpecial(s) ==
    IF s = <<>> THEN <<>>
    ELSE IF Head(s) \in all_special_ids THEN RemoveSpecial(Tail(s))
    ELSE <<Head(s)>> \o RemoveSpecial(Tail(s))

----------------------------------------------------------------------------
(* rescale_stride *)

\* line 48: token_n = int(round(input_n * ratio)), ratio = rn / rd
TokenN(input_n, rn, rd) == RoundHalfEven(input_n * rn, rd)

\* lines 49-50: int(round(x / input_n * token_n))
RescaleTrim(x, input_n, token_n) == RoundHalfEven(x * token_n, input_n)

\* lines 49-50 divide by input_n: ZeroDivisionError when it is 0
RescaleRaises(t) == t[1] = 0

\* one triple of rescale_stride, for t[1] > 0
RescaleOne(t, rn, rd) ==
    LET token_n == TokenN(t[1], rn, rd)
    IN  <<token_n, RescaleTrim(t[2], t[1], token_n), RescaleTrim(t[3], t[1], token_n)>>

----------------------------------------------------------------------------
(* chunk_iter *)

\* line 59
Step(chunk_len, stride_left, stride_right) == chunk_len - stride_left - stride_right

\* the slice not clipped at the end of the waveform
ChunkShapeUnclipped(i, chunk_len, inputs_len) == chunk_len

\* line 62: number of samples of inputs[i : i + chunk_len]
ChunkShape(i, chunk_len, inputs_len) == Min(i + chunk_len, inputs_len) - i

\* the first window treated like every other one
StrideLeftAlways(i, stride_left) == stride_left

\* line 66
StrideLeftAt(i, stride_left) == IF i = 0 THEN 0 ELSE stride_left

\* the left stride left out of the test for the last window
IsLastWithoutStride(i, step, stride_left, inputs_len) == i + step >= inputs_len

\* line 67
IsLast(i, step, stride_left, inputs_len) == i + step + stride_left >= inputs_len

\* line 68
StrideRightAt(is_last, stride_right) == IF is_last THEN 0 ELSE stride_right

\* lines 70-73: the feature extractor returns fe_scale values per sample
ProcessedLen(n, fe_scale) == n * fe_scale

\* lines 75-78: the stride attached to the window
ChunkStride(n, sl, sr, processed_len) ==
    IF processed_len # n
    THEN RescaleOne(<<n, sl, sr>>, processed_len, n)
    ELSE <<n, sl, sr>>

\* the sliver rule one sample too eager
ShouldYieldOffByOne(n, sl) == n > sl + 1

\* line 79
ShouldYield(n, sl) == n > sl

\* a window as preprocess yields it: the flag, the stride, the tensor key of
\* the processed features, the samples off+1 .. off+n it was cut from, and
\* the other keys riding along (none in what chunk_iter yields)
Window(is_last, stride, key, off, n) ==
    [is_last |-> is_last, stride |-> stride, key |-> key, off |-> off, n |-> n,
     extra |-> {}]

----------------------------------------------------------------------------
(* _find_longest_common_sequence *)

\* line 99: np.sum(np.array(sequence[-i:]) == np.array(new_sequence[:i])).
\* Equal lengths compare position by position; a one-element side is
\* broadcast against the other; an empty side against one element gives an
\* empty comparison; any other pair of lengths cannot be broadcast, and then
\* the comparison is the scalar False (sum 0) on a numpy that only warns and
\* a ValueError (written -1) on a numpy that rejects it (strict).
Matches(sequence, new_sequence, i, strict) ==
    LET a == PyTail(sequence, i)
        b == SubSeq(new_sequence, 1, i)
    IN  IF Len(a) = Len(b) THEN Cardinality({p \in 1..Len(a) : a[p] = b[p]})
        ELSE IF Len(a) = 1 THEN Cardinality({p \in 1..Len(b) : b[p] = a[1]})
        ELSE IF Len(b) = 1 THEN 0
        ELSE IF strict THEN -1 ELSE 0

\* lines 94-103: the loop over i, carrying index and max_.  max_ is 0.0
\* while index = 0 and otherwise the score of overlap index, which had
\* mmatches matches.  matching = matches / i + i / 10000 is compared exactly,
\* both sides multiplied by 10000 * i * index; two distinct scores differ by
\* far more than a double's rounding error for the i of the bounds.
RECURSIVE OverlapSearch(_, _, _, _, _, _)
OverlapSearch(sequence, new_sequence, i, index, mmatches, strict) ==
    IF i > Len(new_sequence) THEN index
    ELSE LET matches == Matches(sequence, new_sequence, i, strict)
             better  == \/ index = 0
                        \/ 10000 * matches * index + i * i * index
                             > 10000 * mmatches * i + index * index * i
         IN  IF matches = -1 THEN -1
             ELSE IF matches > 1 /\ better
             THEN OverlapSearch(sequence, new_sequence, i + 1, i, matches, strict)
             ELSE OverlapSearch(sequence, new_sequence, i + 1, index, mmatches, strict)

\* lines 91-104: the loop over sequences[1:]
RECURSIVE MergeAll(_, _, _)
MergeAll(sequence, rest, strict) ==
    IF rest = <<>> THEN [raised |-> FALSE, seq |-> sequence]
    ELSE LET new_sequence == RemoveSpecial(Head(rest))
             index == OverlapSearch(sequence, new_sequence, 1, 0, 0, strict)
         IN  IF index = -1 THEN [raised |-> TRUE, seq |-> <<>>]
             ELSE MergeAll(sequence \o SubSeq(new_sequence, index + 1, Len(new_sequence)),
                           Tail(rest), strict)

\* lines 83-105, for a non-empty list of token sequences
FindLongestCommonSequence(sequences, strict) ==
    MergeAll(RemoveSpecial(Head(sequences)), Tail(sequences), strict)

----------------------------------------------------------------------------
(* AutomaticSpeechRecognitionPipeline *)

Types == {"ctc", "ctc_with_lm", "seq2seq"}
TensorKeys == {"input_values", "input_features", "other"}
Timestamps == {"none", "char", "word"}

\* the input's stride entry: None, or <<left, right, ratio>> where ratio is
\* feature_extractor.sampling_rate / in_sampling_rate (line 327)
UserStrides ==
    {None} \cup
    {<<a, b, r>> : a \in 0..MaxUserStride, b \in 0..MaxUserStride, r \in {1, 2}}

\* lines 272-273
SanitizeRaises(max_new_tokens, generate_kwargs) ==
    max_new_tokens /\ generate_kwargs = "with_max_new_tokens"

\* line 331
StrideTooLarge(us, inputs_len) == us[1] + us[2] > inputs_len

\* line 338
InputStride(us, inputs_len) ==
    IF us = None THEN None ELSE <<inputs_len, us[1] * us[3], us[2] * us[3]>>

\* line 367
ChunkSizingRaises(chunk_len, stride_left, stride_right) ==
    chunk_len < stride_left + stride_right

\* line 60: range(0, inputs_len, step) raises ValueError for step = 0
RangeRaises(step) == step = 0

\* lines 397-405 (seq2seq) and 423 (ctc): the tensor the model family reads
ForwardKeyError(type, key) ==
    IF type = "seq2seq" THEN key \notin {"input_features", "input_values"}
    ELSE key # "input_values"

\* lines 413-417, 425: the model is invoked only once the tensor was found
InvocationsAfter(n, key_error) == IF key_error THEN n ELSE n + 1

\* lines 413-431: the model (an external collaborator) is a synthetic one
\* whose output frame k is the sample its receptive field starts at:
\* processed value j comes from sample j \div fe_scale of the window and
\* frame k from processed value k * ratio (inputs_to_logits_ratio).
ModelFrames(w, fe_scale, ratio) ==
    [k \in 1..((w.n * fe_scale) \div ratio) |->
        w.off + (((k - 1) * ratio) \div fe_scale) + 1]

\* lines 432-440 (ctc families) and 441-443 (seq2seq: the stride rides along
\* unchanged as a leftover key)
ForwardStride(type, stride, ratio) ==
    IF type = "seq2seq" \/ stride = None THEN stride
    ELSE RescaleOne(stride, 1, ratio)

\* lines 449-452
PostprocessError(type, return_timestamps) ==
    IF return_timestamps # "none" /\ type = "seq2seq" THEN "timestamps_seq2seq"
    ELSE IF return_timestamps = "char" /\ type = "ctc_with_lm" THEN "char_timestamps_with_lm"
    ELSE "none"

\* lines 458-467: the frames of one output that are kept
Trimmed(out, type) ==
    IF out.stride # None /\ type \in {"ctc", "ctc_with_lm"}
    THEN PySlice(out.items, out.stride[2], out.stride[1] - out.stride[3])
    ELSE out.items

\* lines 454-468
FinalItems(outs, type) == [k \in 1..Len(outs) |-> Trimmed(outs[k], type)]

\* lines 469-473: stride is the last output's stride; a tuple is truthy
Stitch(outs, type, strict) ==
    IF outs[Len(outs)].stride # None /\ type = "seq2seq"
    THEN FindLongestCommonSequence(FinalItems(outs, type), strict)
    ELSE [raised |-> FALSE, seq |-> Flatten(FinalItems(outs, type))]

\* the only window not flagged as the last one
SingleWindowNotLast(stride, key, inputs_len) == Window(FALSE, stride, key, 0, inputs_len)

\* line 386: the only window of a run without chunking
SingleWindow(stride, key, inputs_len) == Window(TRUE, stride, key, 0, inputs_len)

\* lines 302, 318: the keys of an input dict besides raw/array, sampling_rate
\* and stride
ExtraKeys == {"partial"}

\* line 386: **extra
WithExtra(w, extra) == [w EXCEPT !.extra = extra]

\* lines 441-443: the keys of the window that _forward did not consume
Leftover(w) == w.extra

\* lines 515-522: the keys of the outputs left after tokens, logits, is_last
\* and (line 459) stride were popped
ResultExtra(outs) == UNION {outs[k].extra : k \in 1..Len(outs)}

\* the pack iterator of ChunkPipeline hands the accumulated outputs to
\* postprocess when the output flagged is_last arrives
PackComplete(outs) == outs # <<>> /\ outs[Len(outs)].is_last

NoInput == [inputs_len |-> 0, chunking |-> FALSE, chunk_len |-> 0,
            stride_left |-> 0, stride_right |-> 0, step |-> 0, stride |-> None,
            extra |-> {}]
NoGen == [i |-> 0, chunk_len |-> 0]
NoArg == [kind |-> "none"]

Init ==
    /\ pc = "start"
    /\ cfg \in [type : Types, ratio : {1, 2}, fe_key : TensorKeys, fe_scale : {1, 2}]
    /\ params = [return_timestamps |-> "none"]
    /\ inp = NoInput
    /\ gen = NoGen
    /\ pending = <<>>
    /\ windows = <<>>
    /\ outputs = <<>>
    /\ invocations = 0
    /\ error = "none"
    /\ result = <<>>
    /\ result_extra = {}
    /\ fin = NoArg
    /\ fout = NoArg

Raise(e) == error' = e /\ pc' = "failed"

\* _sanitize_parameters, lines 250-286
Sanitize ==
    /\ pc = "start"
    /\ \E max_new_tokens \in BOOLEAN,
          generate_kwargs \in {"none", "without_max_new_tokens", "with_max_new_tokens"},
          return_timestamps \in Timestamps :
          IF SanitizeRaises(max_new_tokens, generate_kwargs)
          THEN Raise("max_new_tokens_conflict") /\ UNCHANGED params
          ELSE /\ params' = [return_timestamps |-> return_timestamps]
               /\ pc' = "sanitized"
               /\ UNCHANGED error
    /\ UNCHANGED <<cfg, inp, gen, pending, windows, outputs, invocations, result,
                   result_extra, fin, fout>>

\* preprocess up to the loop of chunk_iter (chunking) or to its only yield,
\* lines 288-386 and 57-60
Preprocess ==
    /\ pc = "sanitized"
    /\ \/ \E e \in {"dict_missing_keys", "not_ndarray", "not_single_channel"} :
             Raise(e) /\ UNCHANGED <<inp, gen, pending, windows>>
       \/ \E inputs_len \in 0..MaxLen, us \in UserStrides, extra \in SUBSET ExtraKeys :
             IF us # None /\ StrideTooLarge(us, inputs_len)
             THEN Raise("stride_too_large") /\ UNCHANGED <<inp, gen, pending, windows>>
             ELSE
               \/ \E cu \in 0..MaxChunkUnits, lu \in 0..MaxStrideUnits, ru \in 0..MaxStrideUnits :
                     LET chunk_len    == cu * cfg.ratio
                         stride_left  == lu * cfg.ratio
                         stride_right == ru * cfg.ratio
                         step         == Step(chunk_len, stride_left, stride_right)
                     IN  /\ inp' = [inputs_len |-> inputs_len, chunking |-> TRUE,
                                    chunk_len |-> chunk_len, stride_left |-> stride_left,
                                    stride_right |-> stride_right, step |-> step,
                                    stride |-> None, extra |-> extra]
                         /\ gen' = [i |-> 0, chunk_len |-> chunk_len]
                         /\ UNCHANGED <<pending, windows>>
                         /\ IF ChunkSizingRaises(chunk_len, stride_left, stride_right)
                            THEN Raise("chunk_length_below_stride")
                            ELSE IF RangeRaises(step)
                            THEN Raise("range_step_zero")
                            ELSE pc' = "run" /\ UNCHANGED error
               \/ IF InputStride(us, inputs_len) # None /\ cfg.type = "seq2seq"
                  THEN Raise("stride_with_seq2seq") /\ UNCHANGED <<inp, gen, pending, windows>>
                  ELSE LET w == WithExtra(SingleWindow(InputStride(us, inputs_len),
                                                       cfg.fe_key, inputs_len), extra)
                       IN  /\ inp' = [NoInput EXCEPT !.inputs_len = inputs_len,
                                                     !.stride = InputStride(us, inputs_len),
                                                     !.extra = extra]
                           /\ pending' = <<w>>
                           /\ windows' = <<w>>
                           /\ pc' = "run"
                           /\ UNCHANGED <<gen, error>>
    /\ UNCHANGED <<cfg, params, outputs, invocations, result, result_extra, fin, fout>>

\* one iteration of the loop of chunk_iter, lines 60-80
ChunkIterStep ==
    /\ pc = "run"
    /\ inp.chunking
    /\ pending = <<>>
    /\ gen.i < inp.inputs_len
    /\ LET i        == gen.i
           n        == ChunkShape(i, gen.chunk_len, inp.inputs_len)
           sl       == StrideLeftAt(i, inp.stride_left)
           is_last  == IsLast(i, inp.step, inp.stride_left, inp.inputs_len)
           sr       == StrideRightAt(is_last, inp.stride_right)
           stride   == ChunkStride(n, sl, sr, ProcessedLen(n, cfg.fe_scale))
           w        == Window(is_last, stride, cfg.fe_key, i, n)
       IN  IF cfg.fe_key \notin {"input_features", "input_values"}
           THEN Raise("processed_len_unbound") /\ UNCHANGED <<gen, pending, windows>>
           ELSE /\ gen' = [i |-> i + inp.step, chunk_len |-> n]
                /\ IF ShouldYield(n, sl)
                   THEN pending' = <<w>> /\ windows' = Append(windows, w)
                   ELSE UNCHANGED <<pending, windows>>
                /\ UNCHANGED <<pc, error>>
    /\ UNCHANGED <<cfg, params, inp, outputs, invocations, result, result_extra, fin, fout>>

\* _forward on the pending window, lines 388-443
Forward ==
    /\ pc = "run"
    /\ pending # <<>>
    /\ LET w         == pending[1]
           key_error == ForwardKeyError(cfg.type, w.key)
       IN  /\ invocations' = InvocationsAfter(invocations, key_error)
           /\ IF key_error
              THEN Raise("missing_tensor_key") /\ UNCHANGED <<pending, outputs>>
              ELSE IF cfg.type # "seq2seq" /\ w.stride # None /\ RescaleRaises(w.stride)
              THEN Raise("zero_division") /\ UNCHANGED <<pending, outputs>>
              ELSE /\ outputs' = Append(outputs,
                         [is_last |-> w.is_last,
                          items   |-> ModelFrames(w, cfg.fe_scale, cfg.ratio),
                          stride  |-> ForwardStride(cfg.type, w.stride, cfg.ratio),
                          extra   |-> Leftover(w)])
                   /\ pending' = <<>>
                   /\ UNCHANGED <<pc, error>>
    /\ UNCHANGED <<cfg, params, inp, gen, windows, result, result_extra, fin, fout>>

\* postprocess on the accumulated outputs, lines 445-473
Postprocess ==
    /\ pc = "run"
    /\ pending = <<>>
    /\ PackComplete(outputs)
    /\ IF PostprocessError(cfg.type, params.return_timestamps) # "none"
       THEN Raise(PostprocessError(cfg.type, params.return_timestamps))
            /\ UNCHANGED <<result, result_extra>>
       ELSE \E strict \in BOOLEAN :
               LET r == Stitch(outputs, cfg.type, strict)
               IN  IF r.raised
                   THEN Raise("operands_not_broadcast") /\ UNCHANGED <<result, result_extra>>
                   ELSE /\ result' = r.seq
                        /\ result_extra' = ResultExtra(outputs)
                        /\ pc' = "done"
                        /\ UNCHANGED error
    /\ UNCHANGED <<cfg, params, inp, gen, pending, windows, outputs, invocations, fin, fout>>

Next == Sanitize \/ Preprocess \/ ChunkIterStep \/ Forward \/ Postprocess

Spec == Init /\ [][Next]_vars

----------------------------------------------------------------------------
(* The pure functions on their own: one call per behaviour *)

\* rescale_stride, lines 46-54, on a list of triples; raised when a triple
\* has input_n = 0
RECURSIVE RescaleStride(_, _, _)
RescaleStride(stride, rn, rd) ==
    IF stride = <<>> THEN [raised |-> FALSE, value |-> <<>>]
    ELSE IF RescaleRaises(Head(stride)) THEN [raised |-> TRUE, value |-> <<>>]
    ELSE LET rest == RescaleStride(Tail(stride), rn, rd)
         IN  IF rest.raised THEN rest
             ELSE [raised |-> FALSE,
                   value  |-> <<RescaleOne(Head(stride), rn, rd)>> \o rest.value]

Triples ==
    {<<n, l, r>> : n \in 0..MaxTriple, l \in 0..MaxTriple, r \in 0..MaxTriple}

RescaleArgs ==
    {[kind |-> "rescale_stride", stride |-> <<t>>, rn |-> rn, rd |-> rd] :
        t \in {u \in Triples : u[2] + u[3] <= u[1]},
        rn \in 1..MaxRatioPart, rd \in 1..MaxRatioPart}

TokenSeqs == UNION {[1..k -> 0..MaxTok] : k \in 0..MaxSeqLen}

SpecExamples == { << <<1, 2, 3, 4, 5>>, <<4, 5, 6, 7>> >>, << <<1, 2, 3>>, <<9, 8, 7>> >> }

LcsArgs ==
    {[kind |-> "lcs", sequences |-> ss, strict |-> b] :
        ss \in (UNION {[1..m -> TokenSeqs] : m \in 1..MaxSeqs}) \cup SpecExamples,
        b \in BOOLEAN}

InitPure(args) ==
    /\ pc = "call"
    /\ fin \in args
    /\ fout = NoArg
    /\ cfg = [type |-> "ctc", ratio |-> 1, fe_key |-> "input_values", fe_scale |-> 1]
    /\ params = [return_timestamps |-> "none"]
    /\ inp = NoInput
    /\ gen = NoGen
    /\ pending = <<>>
    /\ windows = <<>>
    /\ outputs = <<>>
    /\ invocations = 0
    /\ error = "none"
    /\ result = <<>>
    /\ result_extra = {}

UnchangedRun ==
    UNCHANGED <<cfg, params, inp, gen, pending, windows, outputs, invocations,
                error, result, result_extra, fin>>

CallRescaleStride ==
    /\ pc = "call"
    /\ fin.kind = "rescale_stride"
    /\ fout' = [kind |-> "rescale_stride"] @@ RescaleStride(fin.stride, fin.rn, fin.rd)
    /\ pc' = "returned"
    /\ UnchangedRun

CallFindLongestCommonSequence ==
    /\ pc = "call"
    /\ fin.kind = "lcs"
    /\ fout' = [kind |-> "lcs"] @@ FindLongestCommonSequence(fin.sequences, fin.strict)
    /\ pc' = "returned"
    /\ UnchangedRun

InitRescale == InitPure(RescaleArgs)
SpecRescale == InitRescale /\ [][CallRescaleStride]_vars

InitLcs == InitPure(LcsArgs)
SpecLcs == InitLcs /\ [][CallFindLongestCommonSequence]_vars

----------------------------------------------------------------------------
(* Properties of chunk_iter and of the exact-trim stitcher *)

\* the loop of chunk_iter has run to its end: windows is all it emits
Exhausted ==
    /\ pc \in {"run", "done"}
    /\ inp.chunking
    /\ gen.i >= inp.inputs_len

FrameClassifier == cfg.type \in {"ctc", "ctc_with_lm"}

Waveform == [k \in 1..inp.inputs_len |-> k]

LastWindows == {k \in 1..Len(windows) : windows[k].is_last}

ZeroLeftWindows == {k \in 1..Len(windows) : windows[k].stride[2] = 0}

\* C1: with one output frame per sample (feature extractor and model of
\* ratio 1), trimming every window emitted by chunk_iter to
\* [left, total_n - right) and concatenating in emission order gives back
\* the waveform, nothing missing, duplicated or reordered.
C1_RoundTrip ==
    (pc = "done" /\ inp.chunking /\ FrameClassifier /\ cfg.fe_scale = 1 /\ cfg.ratio = 1)
        => result = Waveform

\* C2 as stated: for any waveform length, exactly one emitted window has
\* is_last = true, is_last being offset + step + stride_left >= L.
C2_ExactlyOneLastAnyLength ==
    Exhausted =>
        /\ Cardinality(LastWindows) = 1
        /\ \A k \in 1..Len(windows) :
              windows[k].is_last
                  = (windows[k].off + inp.step + inp.stride_left >= inp.inputs_len)

\* C2 amended: for a waveform of length L >= 1, exactly one emitted window
\* has is_last = true; for any L, is_last of every emitted window is
\* offset + step + stride_left >= L (an empty waveform emits no window).
C2_ExactlyOneLast ==
    Exhausted =>
        /\ inp.inputs_len >= 1 => Cardinality(LastWindows) = 1
        /\ inp.inputs_len = 0 => windows = <<>>
        /\ \A k \in 1..Len(windows) :
              windows[k].is_last
                  = (windows[k].off + inp.step + inp.stride_left >= inp.inputs_len)

\* several windows were emitted and a trailing one was dropped after the
\* window flagged is_last
C2_Witness ==
    /\ Exhausted
    /\ Len(windows) >= 3
    /\ windows[Len(windows)].off + inp.step < inp.inputs_len

\* C3: every window emitted by chunk_iter carries its sample count as
\* window_length and has left_trim + right_trim <= window_length.
C3_StrideWithinWindow ==
    (inp.chunking /\ cfg.fe_scale = 1) =>
        \A k \in 1..Len(windows) :
            /\ windows[k].stride[1] = windows[k].n
            /\ windows[k].stride[2] + windows[k].stride[3] <= windows[k].n

\* C4: the spans [offset, min(offset + C, L)) of the emitted windows cover
\* every sample index of [0, L).
C4_SpansCover ==
    Exhausted =>
        /\ \A k \in 1..Len(windows) :
              windows[k].n = Min(windows[k].off + inp.chunk_len, inp.inputs_len) - windows[k].off
        /\ \A x \in 0..(inp.inputs_len - 1) :
              \E k \in 1..Len(windows) :
                  windows[k].off <= x /\ x < windows[k].off + windows[k].n

\* a run in which the sliver rule dropped a window and the rest still covers
C4_Witness ==
    /\ Exhausted
    /\ inp.inputs_len = MaxLen
    /\ Len(windows) >= 2
    /\ windows[Len(windows)].off + inp.step < inp.inputs_len

\* C5 as stated: exactly one emitted window has left_trim = 0, the first
\* one, and every later window has left_trim = stride_left.
C5_ExactlyOneZeroLeftAnyInput ==
    Exhausted =>
        /\ Cardinality(ZeroLeftWindows) = 1
        /\ \A k \in 1..Len(windows) :
              windows[k].stride[2] = (IF k = 1 THEN 0 ELSE inp.stride_left * cfg.fe_scale)

\* C5 amended: the first emitted window is the one at offset 0 and has
\* left_trim = 0, every later emitted window has left_trim = stride_left
\* (in the unit of the processed features); so exactly one emitted window
\* has left_trim = 0 when L >= 1 and stride_left > 0.
C5_FirstWindowZeroLeft ==
    /\ inp.chunking =>
          \A k \in 1..Len(windows) :
              /\ (windows[k].off = 0) = (k = 1)
              /\ windows[k].stride[2] = (IF k = 1 THEN 0 ELSE inp.stride_left * cfg.fe_scale)
    /\ (Exhausted /\ inp.inputs_len >= 1 /\ inp.stride_left > 0) =>
          Cardinality(ZeroLeftWindows) = 1

\* three windows with a non-zero left stride
C5_Witness ==
    /\ Exhausted
    /\ inp.stride_left > 0
    /\ Len(windows) >= 3

----------------------------------------------------------------------------
(* Properties of the run *)

\* C6: when chunking is on and chunk_len <= stride_left + stride_right,
\* preprocess fails with the chunk-length error and emits no window, so that
\* chunk_iter never runs with step < 1.
C6_SizingRejected ==
    (pc \notin {"start", "sanitized"} /\ inp.chunking
        /\ inp.chunk_len <= inp.stride_left + inp.stride_right)
        => (error = "chunk_length_below_stride" /\ windows = <<>>)

\* the configuration and shape errors C7 lists
ListedErrors ==
    {"chunk_length_below_stride", "max_new_tokens_conflict", "stride_too_large",
     "not_ndarray", "not_single_channel", "stride_with_seq2seq",
     "timestamps_seq2seq", "char_timestamps_with_lm"}

\* the two of them that postprocess raises
TimestampErrors == {"timestamps_seq2seq", "char_timestamps_with_lm"}

\* the other configuration and shape errors of the run
EagerErrors ==
    (ListedErrors \ TimestampErrors)
        \cup {"dict_missing_keys", "range_step_zero", "processed_len_unbound",
              "missing_tensor_key"}

\* C7: none of the listed configuration and shape errors is raised once the
\* model has been invoked on a window.
C7_AllErrorsBeforeModel == error \in ListedErrors => invocations = 0

\* What the run does guarantee about the errors C7 lists: every one except
\* the two return_timestamps errors is raised before the first model
\* invocation, and those two are raised by postprocess once the model has
\* been invoked on every window, before anything is stitched.
ErrorsBeforeModelExceptTimestamps ==
    /\ error \in EagerErrors => (invocations = 0 /\ outputs = <<>>)
    /\ error \in TimestampErrors =>
          /\ invocations = Len(outputs)
          /\ PackComplete(outputs)
          /\ result = <<>>

\* C10 as stated: without chunking on a frame classifier there is one
\* window, flagged is_last, and the stitched output is its raw token
\* sequence.
C10_NoChunkUntrimmed ==
    (pc \in {"run", "done"} /\ ~inp.chunking /\ FrameClassifier) =>
        /\ Len(windows) = 1
        /\ windows[1].is_last
        /\ pc = "done" => result = outputs[1].items

\* C10 amended: without chunking on a frame classifier there is one window,
\* flagged is_last; when the input carries no stride the stitched output is
\* that window's raw token sequence, nothing trimmed.
C10_NoChunkNoStrideUntrimmed ==
    (pc \in {"run", "done"} /\ ~inp.chunking /\ FrameClassifier) =>
        /\ Len(windows) = 1
        /\ windows[1].is_last
        /\ windows[1].off = 0 /\ windows[1].n = inp.inputs_len
        /\ (pc = "done" /\ inp.stride = None) =>
              /\ Len(outputs) = 1
              /\ result = outputs[1].items
              /\ Len(result) = (inp.inputs_len * cfg.fe_scale) \div cfg.ratio

\* a finished run without chunking and without stride on a real waveform
C10_Witness ==
    /\ pc = "done"
    /\ ~inp.chunking
    /\ FrameClassifier
    /\ inp.stride = None
    /\ inp.inputs_len >= 2
    /\ Len(result) >= 2

----------------------------------------------------------------------------
(* Properties of the pure functions *)

\* the overlap count of the reference fold: the positions, counted from the
\* start of both slices, at which the last i tokens of the accumulated
\* sequence and the first i tokens of the new one carry the same token
RefMatches(acc, new, i) ==
    LET a == PyTail(acc, i)
        b == SubSeq(new, 1, i)
    IN  Cardinality({p \in 1..Min(Len(a), Len(b)) : a[p] = b[p]})

\* the i in 1..Len(new) with matches > 1 of the strictly highest
\* matches / i + i / 10000, else 0
RefOverlap(acc, new) ==
    LET ok == {i \in 1..Len(new) : RefMatches(acc, new, i) > 1}
        Above(i, j) == 10000 * RefMatches(acc, new, i) * j + i * i * j
                         > 10000 * RefMatches(acc, new, j) * i + j * j * i
    IN  IF ok = {} THEN 0
        ELSE CHOOSE i \in ok : \A j \in ok \ {i} : Above(i, j)

RECURSIVE RefFold(_, _)
RefFold(acc, rest) ==
    IF rest = <<>> THEN acc
    ELSE LET new == RemoveSpecial(Head(rest))
         IN  RefFold(acc \o SubSeq(new, RefOverlap(acc, new) + 1, Len(new)), Tail(rest))

\* C8: _find_longest_common_sequence returns the reference fold of its
\* sequences, also when a new sequence is longer than the accumulated one.
C8_EqualsReferenceFold ==
    (pc = "returned" /\ fin.kind = "lcs") =>
        /\ ~fout.raised
        /\ fout.seq = RefFold(RemoveSpecial(Head(fin.sequences)), Tail(fin.sequences))

\* C9: rescale_stride with ratio 1 returns its triple unchanged and never
\* raises, for every triple with left + right <= input_n, input_n = 0
\* included.
C9_RatioOneIdentity ==
    (pc = "returned" /\ fin.kind = "rescale_stride" /\ fin.rn = fin.rd) =>
        /\ ~fout.raised
        /\ fout.value = fin.stride

----------------------------------------------------------------------------
(* The timestamp projection of postprocess, lines 499-513 *)

RECURSIVE Gcd(_, _)
Gcd(a, b) == IF b = 0 THEN a ELSE Gcd(b, a % b)

\* a number of seconds, written as the fraction num / den in lowest terms
Fraction(num, den) == LET g == Gcd(num, den) IN <<num \div g, den \div g>>

\* frame / ratio instead of frame * ratio
SecondsDividing(frame, rn, rd, sampling_rate) == Fraction(frame * rd, rn * sampling_rate)

\* lines 506-510: offset * inputs_to_logits_ratio, then /= sampling_rate,
\* with inputs_to_logits_ratio = rn / rd.  The source computes a double; the
\* fraction is its exact value.
Seconds(frame, rn, rd, sampling_rate) == Fraction(frame * rn, rd * sampling_rate)

\* line 512: one chunk; item[return_timestamps] is the label of the record
ChunkOf(item, rn, rd, sampling_rate) ==
    [text      |-> item.label,
     timestamp |-> <<Seconds(item.start_offset, rn, rd, sampling_rate),
                     Seconds(item.end_offset, rn, rd, sampling_rate)>>]

\* lines 504-513: the loop over offsets
RECURSIVE ProjectTimestamps(_, _, _, _)
ProjectTimestamps(offsets, rn, rd, sampling_rate) ==
    IF offsets = <<>> THEN <<>>
    ELSE <<ChunkOf(Head(offsets), rn, rd, sampling_rate)>>
            \o ProjectTimestamps(Tail(offsets), rn, rd, sampling_rate)

\* feature_extractor.sampling_rate
SamplingRates == {8000, 16000}

\* the records the tokenizer or the beam decoder returns, lines 482-497
OffsetRecords ==
    {[label |-> c, start_offset |-> a, end_offset |-> b] :
        c \in {"a", "b"}, a \in 0..MaxFrame, b \in 0..MaxFrame}

\* section 8 of the specification: ratio 0.5, 16 kHz, offset (100, 200)
ProjectExample ==
    [kind |-> "project", rn |-> 1, rd |-> 2, sampling_rate |-> 16000,
     offsets |-> <<[label |-> "a", start_offset |-> 100, end_offset |-> 200]>>]

ProjectArgs ==
    {[kind |-> "project", rn |-> rn, rd |-> rd, sampling_rate |-> sr, offsets |-> os] :
        rn \in 1..2, rd \in 1..2, sr \in SamplingRates,
        os \in UNION {[1..m -> {o \in OffsetRecords : o.start_offset <= o.end_offset}] :
                        m \in 0..MaxOffsets}}
      \cup {ProjectExample}

CallProjectTimestamps ==
    /\ pc = "call"
    /\ fin.kind = "project"
    /\ fout' = [kind |-> "project",
                chunks |-> ProjectTimestamps(fin.offsets, fin.rn, fin.rd, fin.sampling_rate)]
    /\ pc' = "returned"
    /\ UnchangedRun

InitProject == InitPure(ProjectArgs)
SpecProject == InitProject /\ [][CallProjectTimestamps]_vars

\* C11 as stated: one chunk per offset record, in order, none filtered,
\* with timestamp frame * ratio / sampling_rate seconds, and the example
\* (ratio 0.5, 16 kHz, offset (100, 200)) gives (3.125 s, 6.25 s), that is
\* (25/8, 25/4).
C11_ProjectionWithExampleInSeconds ==
    (pc = "returned" /\ fin.kind = "project") =>
        /\ Len(fout.chunks) = Len(fin.offsets)
        /\ \A k \in 1..Len(fin.offsets) :
              LET ts == fout.chunks[k].timestamp
                  o  == fin.offsets[k]
              IN  /\ fout.chunks[k].text = o.label
                  /\ ts[1][1] * fin.rd * fin.sampling_rate = o.start_offset * fin.rn * ts[1][2]
                  /\ ts[2][1] * fin.rd * fin.sampling_rate = o.end_offset * fin.rn * ts[2][2]
        /\ fin = ProjectExample => fout.chunks[1].timestamp = << <<25, 8>>, <<25, 4>> >>

\* C11 amended: one chunk per offset record, in order, none filtered, with
\* timestamp frame * ratio / sampling_rate seconds; the example gives
\* (0.003125 s, 0.00625 s), that is (1/320, 1/160): 3.125 and 6.25
\* milliseconds.
C11_Projection ==
    (pc = "returned" /\ fin.kind = "project") =>
        /\ Len(fout.chunks) = Len(fin.offsets)
        /\ \A k \in 1..Len(fin.offsets) :
              LET ts == fout.chunks[k].timestamp
                  o  == fin.offsets[k]
              IN  /\ fout.chunks[k].text = o.label
                  /\ ts[1][2] > 0 /\ ts[2][2] > 0
                  /\ ts[1][1] * fin.rd * fin.sampling_rate = o.start_offset * fin.rn * ts[1][2]
                  /\ ts[2][1] * fin.rd * fin.sampling_rate = o.end_offset * fin.rn * ts[2][2]
        /\ fin = ProjectExample => fout.chunks[1].timestamp = << <<1, 320>>, <<1, 160>> >>

\* the example of the specification has been projected
C11_Witness ==
    pc = "returned" /\ fin = ProjectExample /\ Len(fout.chunks) = 1

----------------------------------------------------------------------------
(* Pass-through keys *)

\* C12: every extra key of an input dict appears in the Result that
\* postprocess returns, with chunking disabled and with chunking enabled.
C12_ExtraKeysPreserved == pc = "done" => inp.extra \subseteq result_extra

\* What does hold: without chunking the Result carries exactly the extra
\* keys of the input; with chunking it carries none of them.
ExtraKeysWithoutChunking ==
    pc = "done" => result_extra = (IF inp.chunking THEN {} ELSE inp.extra)

----------------------------------------------------------------------------
(* The is_last window closes the emitted sequence *)

\* the offsets the loop of chunk_iter has gone through so far
VisitedOffsets ==
    {o \in 0..(inp.inputs_len - 1) : o < gen.i /\ o % inp.step = 0}

EmittedOffsets == {windows[k].off : k \in 1..Len(windows)}

DroppedOffsets == VisitedOffsets \ EmittedOffsets

\* C13: for L >= 1 and C > Sl + Sr, no window is emitted after the window
\* flagged is_last, every window that the rule of line 79 suppresses comes
\* after the is_last window, and once chunk_iter is exhausted the final
\* emitted window is the one flagged is_last.
C13_LastWindowIsFinal ==
    (pc \in {"run", "done"} /\ inp.chunking /\ inp.inputs_len >= 1 /\ inp.step >= 1) =>
        /\ \A k \in 1..(Len(windows) - 1) : ~windows[k].is_last
        /\ \A o \in DroppedOffsets :
              \E k \in 1..Len(windows) : windows[k].is_last /\ windows[k].off < o
        /\ Exhausted => (windows # <<>> /\ windows[Len(windows)].is_last)

\* chunk_iter has run to its end, emitted several windows and dropped a sliver
C13_Witness ==
    /\ Exhausted
    /\ inp.inputs_len >= 1
    /\ Len(windows) >= 2
    /\ windows[Len(windows)].is_last
    /\ DroppedOffsets # {}

----------------------------------------------------------------------------
(* rescale_stride and the Stride invariant *)

\* C14: for every triple (input_n, left, right) with input_n >= 1 and
\* left + right <= input_n and every positive ratio, rescale_stride returns
\* (token_n, left', right') with left' + right' <= token_n.
C14_RescaleKeepsTrimsWithinWindow ==
    (pc = "returned" /\ fin.kind = "rescale_stride" /\ fin.stride[1][1] >= 1) =>
        /\ ~fout.raised
        /\ fout.value[1][2] + fout.value[1][3] <= fout.value[1][1]

\* What does hold: the two rounded trims exceed token_n by at most one.
RescaleTrimsExceedByAtMostOne ==
    (pc = "returned" /\ fin.kind = "rescale_stride" /\ fin.stride[1][1] >= 1) =>
        /\ ~fout.raised
        /\ fout.value[1][2] + fout.value[1][3] <= fout.value[1][1] + 1

====
